---- MODULE Spec2Model ----
(***************************************************************************)
(* Model of documind() (src/core/src/index.ts): the page-processing        *)
(* orchestrator.  One run of documind is a state machine whose steps are   *)
(* the synchronous stretches of code between two awaited I/O operations;   *)
(* in parallel mode every callback is a step of its own: the continuation  *)
(* of a settled call, the store of its result, p-limit's next() and the    *)
(* reaction of Promise.all run in this order for each work unit and in the *)
(* order of settlement across work units, interleaved with the callbacks   *)
(* of the calls that settle meanwhile.                                     *)
(* Strings that the orchestrator manipulates (page contents, priorPage)    *)
(* are sequences of characters; arrays are sequences, read with 0-based    *)
(* indices through At().                                                   *)
(***************************************************************************)
EXTENDS Integers, Sequences, FiniteSets, TLC

\* ---- bounds of the model ------------------------------------------------
MaxImages == 3
MaxConcurrency == 2
MaxPageNo == 2
MaxTokens == 2

\* ---- values ---------------------------------------------------------------
\* JavaScript `undefined` as a page number (an out-of-range array read)
undefined == -1000
\* a hole of the sparse `results` array (an index never assigned)
HOLE == <<"<hole>">>
\* thrown values: an Error of the orchestrator or of a collaborator, or the
\* Error object a getCompletion call rejected with (one object per call)
Err(message) == [message |-> message, image |-> -1]
AdapterError(image) == [message |-> "AdapterError", image |-> image]
NoError == Err("none")
NoRejection == [at |-> "none", error |-> NoError]
NoOutput == [returned |-> FALSE, inputTokens |-> 0, outputTokens |-> 0, pages |-> <<>>]
NoFile == <<"<no file>">>
NoResponse == [content |-> <<>>, inputTokens |-> 0, outputTokens |-> 0]

At(arr, i) == arr[i + 1]

\* what a getCompletion call may return: response t has its own token counts
\* and one of three raw contents; "#" stands for a code fence
RawContent(t) ==
    IF t = 1 THEN <<"a">> ELSE IF t = 2 THEN <<"#", "b", "#">> ELSE <<"#", "#">>
Responses ==
    {[content |-> RawContent(t), inputTokens |-> t, outputTokens |-> MaxTokens + 1 - t] :
        t \in 1..MaxTokens}
Extensions == {".png", ".pdf", ".docx"}

\* formatMarkdown (./utils, not part of the sources at hand): strips the
\* code fence that wraps a completion
RECURSIVE StripLeading(_)
StripLeading(s) == IF s # <<>> /\ Head(s) = "#" THEN StripLeading(Tail(s)) ELSE s
RECURSIVE StripTrailing(_)
StripTrailing(s) ==
    IF s # <<>> /\ s[Len(s)] = "#" THEN StripTrailing(SubSeq(s, 1, Len(s) - 1)) ELSE s
formatMarkdown(content) == StripTrailing(StripLeading(content))

\* isString (./utils): the filter applied to the parallel results; Array.filter
\* skips the holes of a sparse array, and every assigned slot is a string
isString(v) == v # HOLE

\* a list left in the order the caller gave
NoSort(s) == s

\* pagesToConvertAsImages.sort((a, b) => a - b)
RECURSIVE Insert(_, _)
Insert(x, s) ==
    IF s = <<>> THEN <<x>>
    ELSE IF x <= Head(s) THEN <<x>> \o s
    ELSE <<Head(s)>> \o Insert(x, Tail(s))
RECURSIVE SortAsc(_)
SortAsc(s) == IF s = <<>> THEN <<>> ELSE Insert(Head(s), SortAsc(Tail(s)))

\* values of the pagesToConvertAsImages argument: -1, a number, or a list
PageNumber(n) == [isArray |-> FALSE, num |-> n, list |-> <<>>]
PageList(l) == [isArray |-> TRUE, num |-> 0, list |-> l]
Injective(s) == \A a, b \in 1..Len(s) : a # b => s[a] # s[b]
PageNos == {3 * k - 1 : k \in 1..MaxPageNo}
PageLists == {l \in UNION {[1..n -> PageNos] : n \in 0..MaxPageNo} : Injective(l)}
PagesArgs == {PageNumber(n) : n \in {-1} \cup PageNos} \cup {PageList(l) : l \in PageLists}

\* a formattedPages that numbers every page by its index
resolvePageNumberByIndex(pages, i) == i + 1

\* the `pageNumber` computed in formattedPages for index i
resolvePageNumber(pages, i) ==
    IF ~pages.isArray /\ pages.num = -1 THEN i + 1
    ELSE IF pages.isArray
         THEN (IF i < Len(pages.list) THEN At(pages.list, i) ELSE undefined)
    ELSE pages.num

\* aggregatedMarkdown.map((el, i) => ({content, page, contentLength}))
formattedPages(markdown, pages) ==
    [j \in 1..Len(markdown) |->
        [content |-> markdown[j],
         page |-> resolvePageNumber(pages, j - 1),
         contentLength |-> Len(markdown[j])]]

\* a filter that starts at slot 1 and so loses the first result
RECURSIVE filterResultsFromOne(_, _)
filterResultsFromOne(res, n) ==
    IF n <= 1 THEN <<>>
    ELSE filterResultsFromOne(res, n - 1)
            \o (IF isString(res[n - 1]) THEN <<res[n - 1]>> ELSE <<>>)

\* results.filter(isString) over the slots 0..n-1 of the sparse array
RECURSIVE filterResults(_, _)
filterResults(res, n) ==
    IF n = 0 THEN <<>>
    ELSE filterResults(res, n - 1) \o (IF isString(res[n - 1]) THEN <<res[n - 1]>> ELSE <<>>)

\* aggregatedMarkdown.join(""): the pages glued together
RECURSIVE joinNoSeparator(_)
joinNoSeparator(md) == IF md = <<>> THEN <<>> ELSE md[1] \o joinNoSeparator(Tail(md))

\* aggregatedMarkdown.join("\n\n"); "\n\n" is one separator character here
RECURSIVE join(_)
join(md) ==
    IF md = <<>> THEN <<>>
    ELSE IF Len(md) = 1 THEN md[1]
    ELSE md[1] \o <<"\n\n">> \o join(Tail(md))

\* ---- state ----------------------------------------------------------------
VARIABLES
    cleanup, concurrency, filePath, llmParams, maintainFormat, openaiAPIKey, outputDir,
    pagesToConvertAsImages,   \* the arguments of the call
    suppliedPages,       \* pagesToConvertAsImages as the caller supplied it
    executor,            \* "none", "sequential" or "parallel" (line 104)
    pc,                  \* "start", the awaited operation, "returned" or "failed"
    tempDirectory,       \* the temporary directory: "none", "exists" or "removed"
    images,              \* the .png files listed in tempDirectory
    inputTokenCount, outputTokenCount, priorPage, aggregatedMarkdown,
    results,             \* the sparse array of processPagesInBatches
    queue, activeCount,  \* p-limit: waiting work units, running work units
    callState,           \* per image: "idle", "inflight", "returned", "failed"
    callPrior,           \* per image: the priorPage argument of its getCompletion call
    returned,            \* per image: what its getCompletion call returned
    raised,              \* per image: what its getCompletion call threw
    settled,             \* the images in the order their calls returned or threw
    dispatches,          \* per image: for each getCompletion call started for it,
                         \* the number of calls that had settled by then
    pendingStore,        \* the returned work units whose callback of lines
                         \* 165-167 has not run yet, in the order they returned
    pendingNext,         \* the settled work units whose p-limit next() has not
                         \* run yet, in the order in which they settled
    pendingAll,          \* the work units whose next() has run and whose promise
                         \* has not reached Promise.all yet, in that order
    rejected,            \* the rejection on its way from Promise.all to the
                         \* caller: the promise it has reached, and the error
    ioStarted,           \* an I/O operation has been started
    written,             \* content of the output file, NoFile if not written
    error,               \* the value documind threw
    output               \* the value documind returned

argVars == <<cleanup, concurrency, filePath, llmParams, maintainFormat, openaiAPIKey,
             outputDir, suppliedPages>>
accVars == <<inputTokenCount, outputTokenCount, priorPage, aggregatedMarkdown, results>>
callVars == <<queue, activeCount, callState, callPrior, returned, raised, settled,
             dispatches, pendingStore, pendingNext, pendingAll, rejected>>
vars == <<argVars, pagesToConvertAsImages, pc, executor, tempDirectory, images, accVars,
          callVars, ioStarted, written, error, output>>

IOOps == {"ensureDir", "downloadFile", "convertFileToPdf", "convertPdfToImages",
          "readdir", "getCompletion", "writeFile", "remove"}

Indices == 0..(Len(images) - 1)
\* the elements of an array
RangeOf(l) == {l[j] : j \in 1..Len(l)}

InFlight == {i \in DOMAIN callState : callState[i] = "inflight"}

Init ==
    /\ cleanup \in BOOLEAN
    /\ concurrency \in 0..MaxConcurrency
    /\ filePath \in {"", "doc"}
    /\ llmParams \in {"valid", "invalid"}
    /\ maintainFormat \in BOOLEAN
    /\ openaiAPIKey \in {"", "key"}
    /\ outputDir \in {"", "out"}
    /\ pagesToConvertAsImages \in PagesArgs
    /\ suppliedPages = pagesToConvertAsImages
    /\ pc = "start"
    /\ executor = "none"
    /\ tempDirectory = "none"
    /\ images = <<>>
    /\ inputTokenCount = 0
    /\ outputTokenCount = 0
    /\ priorPage = <<>>
    /\ aggregatedMarkdown = <<>>
    /\ results = <<>>
    /\ queue = <<>>
    /\ activeCount = 0
    /\ callState = <<>>
    /\ callPrior = <<>>
    /\ returned = <<>>
    /\ raised = <<>>
    /\ settled = <<>>
    /\ pendingStore = <<>>
    /\ pendingNext = <<>>
    /\ pendingAll = <<>>
    /\ rejected = NoRejection
    /\ dispatches = <<>>
    /\ ioStarted = FALSE
    /\ written = NoFile
    /\ error = NoError
    /\ output = NoOutput

\* a rethrow that replaces the caught value by a fresh error
ThrowGeneric(e) == pc' = "failed" /\ error' = Err("Error")

\* the run throws e out of documind; nothing else changes (there is no finally)
Throw(e) == pc' = "failed" /\ error' = e

\* the run goes on to await operation op
Await(op) == pc' = op /\ ioStarted' = TRUE /\ error' = error

\* a validator that accepts everything
MissingNever(value) == FALSE

\* lines 44, 47: `!value || !value.length`
Missing(value) == value = ""

\* validateLLMParams (./utils, not part of the sources at hand) returns the
\* parameters or throws; it performs no I/O
validateLLMParams(params) == params = "valid"

\* lines 41-57: validators, then the temporary directory is created
Documind ==
    /\ pc = "start"
    /\ IF ~validateLLMParams(llmParams)
       THEN Throw(Err("Invalid LLM parameter")) /\ UNCHANGED ioStarted
       ELSE IF Missing(openaiAPIKey)
       THEN Throw(Err("Missing OpenAI API key")) /\ UNCHANGED ioStarted
       ELSE IF Missing(filePath)
       THEN Throw(Err("Missing file path")) /\ UNCHANGED ioStarted
       ELSE Await("ensureDir")
    /\ UNCHANGED <<argVars, pagesToConvertAsImages, executor, tempDirectory, images,
                   accVars, callVars, written, output>>

\* line 57 returns or throws; line 60 starts the download
EnsureDirDone ==
    /\ pc = "ensureDir"
    /\ \E ok \in BOOLEAN :
        IF ok THEN tempDirectory' = "exists" /\ Await("downloadFile")
        ELSE Throw(Err("IOError")) /\ UNCHANGED <<tempDirectory, ioStarted>>
    /\ UNCHANGED <<argVars, pagesToConvertAsImages, executor, images, accVars, callVars,
                   written, output>>

\* lines 60-90: the download returns or throws; the page list is sorted in
\* place; the conversion the extension asks for is started
DownloadDone ==
    /\ pc = "downloadFile"
    /\ \E ok \in BOOLEAN, localPath \in {"", "tmp/doc"}, extension \in Extensions :
        IF ~ok THEN
            /\ Throw(Err("DownloadError"))
            /\ UNCHANGED <<ioStarted, pagesToConvertAsImages>>
        ELSE IF localPath = "" THEN
            /\ Throw(Err("Failed to save file to local drive"))
            /\ UNCHANGED <<ioStarted, pagesToConvertAsImages>>
        ELSE
            /\ pagesToConvertAsImages' =
                  IF pagesToConvertAsImages.isArray
                  THEN PageList(SortAsc(pagesToConvertAsImages.list))
                  ELSE pagesToConvertAsImages
            /\ IF extension = ".png" THEN Await("readdir")
               ELSE IF extension = ".pdf" THEN Await("convertPdfToImages")
               ELSE Await("convertFileToPdf")
    /\ UNCHANGED <<argVars, executor, tempDirectory, images, accVars, callVars, written,
                   output>>

\* lines 78-89: convertFileToPdf returns or throws
ConvertFileToPdfDone ==
    /\ pc = "convertFileToPdf"
    /\ \E ok \in BOOLEAN :
        IF ok THEN Await("convertPdfToImages")
        ELSE Throw(Err("ConversionError")) /\ UNCHANGED ioStarted
    /\ UNCHANGED <<argVars, pagesToConvertAsImages, executor, tempDirectory, images,
                   accVars, callVars, written, output>>

\* lines 85-101: convertPdfToImages returns or throws
ConvertPdfToImagesDone ==
    /\ pc = "convertPdfToImages"
    /\ \E ok \in BOOLEAN :
        IF ok THEN Await("readdir")
        ELSE Throw(Err("ConversionError")) /\ UNCHANGED ioStarted
    /\ UNCHANGED <<argVars, pagesToConvertAsImages, executor, tempDirectory, images,
                   accVars, callVars, written, output>>

\* lines 211-217: the returned object
MakeOutput(markdown, inTokens, outTokens) ==
    [returned |-> TRUE, inputTokens |-> inTokens, outputTokens |-> outTokens,
     pages |-> formattedPages(markdown, pagesToConvertAsImages)]

\* lines 181-217 up to the next await: with all pages in `markdown`, the run
\* starts the file write, else the removal, else returns
Finish(markdown, inTokens, outTokens) ==
    LET op == IF outputDir # "" THEN "writeFile"
              ELSE IF cleanup THEN "remove" ELSE "returned"
    IN  /\ pc' = op
        /\ ioStarted' = (ioStarted \/ op \in IOOps)
        /\ output' = IF op = "returned" THEN MakeOutput(markdown, inTokens, outTokens)
                     ELSE output
        /\ error' = error

\* a limiter whose gate never opens
CanStartNever(active, conc) == FALSE

\* a limiter that starts every queued function at once
CanStartUnbounded(active, conc) == TRUE

\* p-limit: a queued function is started only while activeCount < concurrency
CanStart(active, conc) == active < conc

\* p-limit: each of the n enqueue() calls schedules one attempt to start the
\* head of the queue; the number of work units that start right away
RECURSIVE NumToStart(_, _, _)
NumToStart(n, active, conc) ==
    IF n = 0 \/ ~CanStart(active, conc) THEN 0
    ELSE 1 + NumToStart(n - 1, active + 1, conc)

\* lines 104-116: the sequential loop is entered; the first call is started
SeqStart(n) ==
    /\ UNCHANGED <<accVars, queue, activeCount>>
    /\ callState' = [i \in 0..(n - 1) |-> IF i = 0 THEN "inflight" ELSE "idle"]
    /\ callPrior' = [i \in 0..(n - 1) |-> priorPage]
    /\ dispatches' = [i \in 0..(n - 1) |-> IF i = 0 THEN <<0>> ELSE <<>>]
    /\ IF n = 0
       THEN Finish(aggregatedMarkdown, inputTokenCount, outputTokenCount)
       ELSE Await("getCompletion") /\ UNCHANGED output

\* lines 160-178: pLimit(concurrency), images.map(...) enqueues every image,
\* the first ones start, and Promise.all is awaited
ParStart(n) ==
    IF concurrency < 1 THEN
        /\ Throw(Err("TypeError"))
        /\ callState' = [i \in 0..(n - 1) |-> "idle"]
        /\ callPrior' = [i \in 0..(n - 1) |-> priorPage]
        /\ dispatches' = [i \in 0..(n - 1) |-> <<>>]
        /\ UNCHANGED <<accVars, queue, activeCount, ioStarted, output>>
    ELSE
        LET k == NumToStart(n, 0, concurrency) IN
        /\ queue' = [j \in 1..(n - k) |-> k + j - 1]
        /\ activeCount' = k
        /\ callState' = [i \in 0..(n - 1) |-> IF i < k THEN "inflight" ELSE "idle"]
        /\ callPrior' = [i \in 0..(n - 1) |-> priorPage]
        /\ dispatches' = [i \in 0..(n - 1) |-> IF i < k THEN <<0>> ELSE <<>>]
        /\ results' = [i \in 0..(n - 1) |-> HOLE]
        /\ UNCHANGED <<inputTokenCount, outputTokenCount, priorPage>>
        /\ IF n = 0
           THEN /\ aggregatedMarkdown' = aggregatedMarkdown \o filterResults(results', n)
                /\ Finish(aggregatedMarkdown', inputTokenCount, outputTokenCount)
           ELSE /\ pc' = "Promise.all"
                /\ ioStarted' = TRUE
                /\ error' = error
                /\ UNCHANGED <<aggregatedMarkdown, output>>

\* a selector that always takes the parallel branch
UseSequentialNever(flag) == FALSE

\* line 104: `if (maintainFormat)` selects the sequential loop
UseSequential(flag) == flag

\* lines 101-102 return or throw; then the executor is chosen (line 104)
ReaddirDone ==
    /\ pc = "readdir"
    /\ \E ok \in BOOLEAN, n \in 0..MaxImages :
        IF ~ok THEN
            /\ Throw(Err("IOError"))
            /\ UNCHANGED <<executor, images, accVars, callVars, ioStarted, output>>
        ELSE
            /\ images' = [j \in 1..n |-> j - 1]
            /\ returned' = [i \in 0..(n - 1) |-> NoResponse]
            /\ raised' = [i \in 0..(n - 1) |-> NoError]
            /\ settled' = settled
            /\ UNCHANGED <<pendingStore, pendingNext, pendingAll, rejected>>
            /\ IF UseSequential(maintainFormat)
               THEN executor' = "sequential" /\ SeqStart(n)
               ELSE executor' = "parallel" /\ ParStart(n)
    /\ UNCHANGED <<argVars, pagesToConvertAsImages, tempDirectory, written>>

\* `count = tokens`: an accumulator that forgets the earlier pages
OverwriteTokens(count, tokens) == tokens

\* lines 118-119, 145-146: `count += tokens`
AddTokens(count, tokens) == count + tokens

\* a priorPage that is never updated
KeepPriorPage(prior, formattedMarkdown) == prior

\* lines 122, 149: `priorPage = formattedMarkdown`
NextPriorPage(prior, formattedMarkdown) == formattedMarkdown

\* `results.push(result)`: results collected in completion order
StoreResultInCompletionOrder(res, index, result) ==
    LET holes == {j \in DOMAIN res : res[j] = HOLE}
        first == CHOOSE j \in holes : \A h \in holes : j <= h
    IN  [res EXCEPT ![first] = result]

\* line 166: `results[index] = result`
StoreResult(res, index, result) == [res EXCEPT ![index] = result]

\* a rejection handler that fires for every rejection, not only the first
AlwaysRejects(awaited) == TRUE

\* line 171: Promise.all rejects with the first rejection, as long as the run
\* still awaits it
RejectsPromiseAll(awaited) == awaited = "Promise.all"

\* lines 109-125 and the next turn of the loop: the awaited call of the
\* sequential loop returns resp; the result is stored and the next image's call
\* is started, or the loop ends
SeqReturn ==
    /\ executor = "sequential"
    /\ pc = "getCompletion"
    /\ \E i \in InFlight, resp \in Responses :
        LET formattedMarkdown == formatMarkdown(resp.content) IN
        /\ inputTokenCount' = AddTokens(inputTokenCount, resp.inputTokens)
        /\ outputTokenCount' = AddTokens(outputTokenCount, resp.outputTokens)
        /\ priorPage' = NextPriorPage(priorPage, formattedMarkdown)
        /\ aggregatedMarkdown' = Append(aggregatedMarkdown, formattedMarkdown)
        /\ returned' = [returned EXCEPT ![i] = resp]
        /\ settled' = Append(settled, i)
        /\ IF i + 1 < Len(images)
           THEN /\ callState' = [callState EXCEPT ![i] = "returned", ![i + 1] = "inflight"]
                /\ callPrior' = [callPrior EXCEPT ![i + 1] = priorPage']
                /\ dispatches' = [dispatches EXCEPT ![i + 1] = Append(@, Len(settled'))]
                /\ UNCHANGED <<pc, ioStarted, output, error>>
           ELSE /\ callState' = [callState EXCEPT ![i] = "returned"]
                /\ callPrior' = callPrior
                /\ dispatches' = dispatches
                /\ Finish(aggregatedMarkdown', inputTokenCount', outputTokenCount')
    /\ UNCHANGED <<argVars, pagesToConvertAsImages, executor, tempDirectory, images,
                   results, queue, activeCount, raised, pendingStore, pendingNext,
                   pendingAll, rejected, written>>

\* lines 126-129: the awaited call of the sequential loop throws e, which is
\* logged and rethrown out of documind
SeqFail ==
    /\ executor = "sequential"
    /\ pc = "getCompletion"
    /\ \E i \in InFlight :
        LET e == AdapterError(i) IN
        /\ callState' = [callState EXCEPT ![i] = "failed"]
        /\ raised' = [raised EXCEPT ![i] = e]
        /\ settled' = Append(settled, i)
        /\ Throw(e)
    /\ UNCHANGED <<argVars, pagesToConvertAsImages, executor, tempDirectory, images,
                   accVars, queue, activeCount, callPrior, returned, dispatches,
                   pendingStore, pendingNext, pendingAll, rejected, ioStarted, written,
                   output>>

\* the state of the limiter of line 175 and of the work units it starts
Limiter ==
    [queue |-> queue, activeCount |-> activeCount, callState |-> callState,
     callPrior |-> callPrior, dispatches |-> dispatches]

\* a limiter that runs a failed work unit again instead of the next one
PLimitNextRetry(lim, k, prior, now) ==
    IF lim.callState[k] = "failed"
    THEN [lim EXCEPT !.callState = [@ EXCEPT ![k] = "inflight"],
                     !.callPrior = [@ EXCEPT ![k] = prior],
                     !.dispatches = [@ EXCEPT ![k] = Append(@, now)]]
    ELSE IF lim.queue # <<>>
    THEN [lim EXCEPT !.queue = Tail(@),
                     !.activeCount = @ - 1 + 1,
                     !.callState = [@ EXCEPT ![Head(lim.queue)] = "inflight"],
                     !.callPrior = [@ EXCEPT ![Head(lim.queue)] = prior],
                     !.dispatches = [@ EXCEPT ![Head(lim.queue)] = Append(@, now)]]
    ELSE [lim EXCEPT !.activeCount = @ - 1]

\* p-limit next(), after work unit k settled either way: activeCount drops and
\* the head of the queue, if any, starts: processPage calls getCompletion with
\* the priorPage of that moment (line 142); now counts the calls settled so far
PLimitNext(lim, k, prior, now) ==
    IF lim.queue # <<>>
    THEN [lim EXCEPT !.queue = Tail(@),
                     !.activeCount = @ - 1 + 1,
                     !.callState = [@ EXCEPT ![Head(lim.queue)] = "inflight"],
                     !.callPrior = [@ EXCEPT ![Head(lim.queue)] = prior],
                     !.dispatches = [@ EXCEPT ![Head(lim.queue)] = Append(@, now)]]
    ELSE [lim EXCEPT !.activeCount = @ - 1]

\* Promise.race in place of Promise.all: the run goes on at the first result
AnyResolved(states) == \E i \in DOMAIN states : states[i] = "returned"

\* line 171: Promise.all resolves once every promise has resolved
AllResolved(states) == \A i \in DOMAIN states : states[i] = "returned"

\* lines 144-152: the call of work unit k returns resp and the continuation of
\* processPage runs: the token counters and priorPage are updated and the
\* formatted content is returned; the callbacks that follow (the store of
\* lines 165-167, p-limit's next(), Promise.all) are microtasks of their own,
\* and the continuations of other calls may run before them
ParReturn ==
    /\ executor = "parallel"
    /\ \E k \in InFlight, resp \in Responses :
        LET formattedMarkdown == formatMarkdown(resp.content) IN
        /\ inputTokenCount' = AddTokens(inputTokenCount, resp.inputTokens)
        /\ outputTokenCount' = AddTokens(outputTokenCount, resp.outputTokens)
        /\ priorPage' = NextPriorPage(priorPage, formattedMarkdown)
        /\ callState' = [callState EXCEPT ![k] = "returned"]
        /\ returned' = [returned EXCEPT ![k] = resp]
        /\ settled' = Append(settled, k)
        /\ pendingStore' = Append(pendingStore, k)
        /\ pendingNext' = Append(pendingNext, k)
    /\ UNCHANGED <<argVars, pagesToConvertAsImages, pc, executor, tempDirectory, images,
                   aggregatedMarkdown, results, queue, activeCount, callPrior, raised,
                   dispatches, pendingAll, rejected, ioStarted, written, error, output>>

\* lines 153-156: the call of work unit k throws e and the catch block of
\* processPage runs: e is logged and rethrown, which rejects the promise of
\* the work unit; the store of lines 165-167 is skipped; p-limit's next() and
\* Promise.all follow as microtasks of their own
ParFail ==
    /\ executor = "parallel"
    /\ \E k \in InFlight :
        LET e == AdapterError(k) IN
        /\ callState' = [callState EXCEPT ![k] = "failed"]
        /\ raised' = [raised EXCEPT ![k] = e]
        /\ settled' = Append(settled, k)
        /\ pendingNext' = Append(pendingNext, k)
    /\ UNCHANGED <<argVars, pagesToConvertAsImages, pc, executor, tempDirectory, images,
                   accVars, queue, activeCount, callPrior, returned, dispatches,
                   pendingStore, pendingAll, rejected, ioStarted, written, error,
                   output>>

\* lines 165-167: the callback of processPage(image).then(...) of the work
\* unit that returned first among those waiting: `results[index] = result`
ParThen ==
    /\ executor = "parallel"
    /\ pendingStore # <<>>
    /\ LET index == Head(pendingStore)
           result == formatMarkdown(returned[index].content)
       IN
       /\ results' = StoreResult(results, index, result)
       /\ pendingStore' = Tail(pendingStore)
    /\ UNCHANGED <<argVars, pagesToConvertAsImages, pc, executor, tempDirectory, images,
                   inputTokenCount, outputTokenCount, priorPage, aggregatedMarkdown,
                   queue, activeCount, callState, callPrior, returned, raised, settled,
                   dispatches, pendingNext, pendingAll, rejected, ioStarted, written, error,
                   output>>

\* p-limit, for the work unit that settled first among those waiting, after
\* its callback of lines 165-167: next() runs and starts the head of the
\* queue, whether the settled unit returned or threw
ParNext ==
    /\ executor = "parallel"
    /\ pendingNext # <<>>
    /\ Head(pendingNext) \notin RangeOf(pendingStore)
    /\ LET lim == PLimitNext(Limiter, Head(pendingNext), priorPage, Len(settled)) IN
       /\ queue' = lim.queue
       /\ activeCount' = lim.activeCount
       /\ callState' = lim.callState
       /\ callPrior' = lim.callPrior
       /\ dispatches' = lim.dispatches
       /\ pendingNext' = Tail(pendingNext)
       /\ pendingAll' = Append(pendingAll, Head(pendingNext))
    /\ UNCHANGED <<argVars, pagesToConvertAsImages, pc, executor, tempDirectory, images,
                   accVars, returned, raised, settled, pendingStore, rejected, ioStarted,
                   written, error, output>>

\* what Promise.all knows of the work units: a unit whose promise has not
\* reached it yet counts as pending
Notified(states, waiting) ==
    [i \in DOMAIN states |-> IF i \in waiting THEN "pending" ELSE states[i]]

\* what a promise that reaches Promise.all finds: the run awaiting it, or
\* Promise.all rejected already
Awaited == IF rejected.at = "none" THEN pc ELSE "rejected"

\* lines 171-188: the promise of the work unit that settled first among those
\* waiting reaches Promise.all, after p-limit's next() for it: the first
\* rejection rejects Promise.all, which the caller learns of in later
\* microtasks; when every unit has resolved, the awaiting run goes on (lines
\* 176-188), and no other callback is left to run in between
ParPromiseAll ==
    /\ executor = "parallel"
    /\ pendingAll # <<>>
    /\ LET k == Head(pendingAll)
           notified == Notified(callState, RangeOf(pendingNext) \cup RangeOf(Tail(pendingAll)))
       IN
       /\ pendingAll' = Tail(pendingAll)
       /\ IF callState[k] = "failed" /\ RejectsPromiseAll(Awaited)
          THEN /\ rejected' = [at |-> "Promise.all", error |-> raised[k]]
               /\ UNCHANGED <<aggregatedMarkdown, pc, error, ioStarted, output>>
          ELSE IF Awaited = "Promise.all" /\ AllResolved(notified)
          THEN /\ aggregatedMarkdown' =
                     aggregatedMarkdown \o filterResults(results, Len(images))
               /\ Finish(aggregatedMarkdown', inputTokenCount, outputTokenCount)
               /\ rejected' = rejected
          ELSE UNCHANGED <<aggregatedMarkdown, pc, error, ioStarted, output, rejected>>
    /\ UNCHANGED <<argVars, pagesToConvertAsImages, executor, tempDirectory, images,
                   inputTokenCount, outputTokenCount, priorPage, results, queue,
                   activeCount, callState, callPrior, returned, raised, settled,
                   dispatches, pendingStore, pendingNext, written>>

\* lines 171-172: the continuation of processPagesInBatches after
\* `await Promise.all(promises)` rejected: it throws the error, which rejects
\* the promise that documind awaits
ProcessPagesInBatchesThrows ==
    /\ rejected.at = "Promise.all"
    /\ rejected' = [rejected EXCEPT !.at = "processPagesInBatches"]
    /\ UNCHANGED <<argVars, pagesToConvertAsImages, pc, executor, tempDirectory, images,
                   accVars, queue, activeCount, callState, callPrior, returned, raised,
                   settled, dispatches, pendingStore, pendingNext, pendingAll,
                   ioStarted, written, error, output>>

\* line 176: the continuation of documind after
\* `await processPagesInBatches(images, limit)` rejected: documind throws the
\* error
DocumindThrows ==
    /\ rejected.at = "processPagesInBatches"
    /\ rejected' = [rejected EXCEPT !.at = "documind"]
    /\ Throw(rejected.error)
    /\ UNCHANGED <<argVars, pagesToConvertAsImages, executor, tempDirectory, images,
                   accVars, queue, activeCount, callState, callPrior, returned, raised,
                   settled, dispatches, pendingStore, pendingNext, pendingAll,
                   ioStarted, written, output>>

\* lines 184-188: writeFile returns or throws; then the removal starts or the
\* run returns
WriteFileDone ==
    /\ pc = "writeFile"
    /\ \E ok \in BOOLEAN :
        IF ok THEN
            /\ written' = join(aggregatedMarkdown)
            /\ pc' = IF cleanup THEN "remove" ELSE "returned"
            /\ ioStarted' = ioStarted
            /\ output' = IF pc' = "returned"
                         THEN MakeOutput(aggregatedMarkdown, inputTokenCount, outputTokenCount)
                         ELSE output
            /\ error' = error
        ELSE Throw(Err("IOError")) /\ UNCHANGED <<written, ioStarted, output>>
    /\ UNCHANGED <<argVars, pagesToConvertAsImages, executor, tempDirectory, images,
                   accVars, callVars>>

\* lines 188-217: fs.remove returns or throws; the run returns its output
RemoveDone ==
    /\ pc = "remove"
    /\ \E ok \in BOOLEAN :
        IF ok THEN
            /\ tempDirectory' = "removed"
            /\ pc' = "returned"
            /\ output' = MakeOutput(aggregatedMarkdown, inputTokenCount, outputTokenCount)
            /\ error' = error
        ELSE Throw(Err("IOError")) /\ UNCHANGED <<tempDirectory, output>>
    /\ UNCHANGED <<argVars, pagesToConvertAsImages, executor, images, accVars, callVars,
                   ioStarted, written>>

Next ==
    \/ Documind
    \/ EnsureDirDone
    \/ DownloadDone
    \/ ConvertFileToPdfDone
    \/ ConvertPdfToImagesDone
    \/ ReaddirDone
    \/ SeqReturn
    \/ SeqFail
    \/ ParReturn
    \/ ParFail
    \/ ParThen
    \/ ParNext
    \/ ParPromiseAll
    \/ ProcessPagesInBatchesThrows
    \/ DocumindThrows
    \/ WriteFileDone
    \/ RemoveDone

Spec == Init /\ [][Next]_vars

\* every awaited operation eventually returns or throws, and the event loop
\* then runs the continuation of the code that awaits it: a run with a pending
\* operation does not stand still forever
Fairness == WF_vars(Next)

\* the runs checked for what the executors do: every argument varies as in
\* Init, except the page selection, which does not steer the control flow:
\* all pages
RunInit ==
    /\ Init
    /\ suppliedPages = PageNumber(-1)

RunSpec == RunInit /\ [][Next]_vars

\* the runs checked for the page numbers: the page selection varies as in
\* Init, in both modes; the file is written, the directory is removed and the
\* limiter runs one work unit at a time
PagesInit ==
    /\ Init
    /\ cleanup
    /\ outputDir = "out"
    /\ concurrency = 1

PagesSpec == PagesInit /\ [][Next]_vars

\* the runs checked for termination: the longest ones, which write the file
\* and remove the directory; the other arguments vary as in RunInit
LiveInit ==
    /\ RunInit
    /\ cleanup
    /\ outputDir = "out"

FairSpec == LiveInit /\ [][Next]_vars /\ Fairness

\* ---- properties ------------------------------------------------------------
Formatted(i) == formatMarkdown(returned[i].content)
PageIndices == 0..(Len(output.pages) - 1)
Returned == pc = "returned"
Failed == pc = "failed"
FailedUnits == {i \in DOMAIN callState : callState[i] = "failed"}
ReturnedUnits == {i \in DOMAIN callState : callState[i] = "returned"}
IsAscending(l) == \A j \in 1..(Len(l) - 1) : l[j] < l[j + 1]

RECURSIVE SumInputTokens(_)
SumInputTokens(n) ==
    IF n = 0 THEN 0 ELSE SumInputTokens(n - 1) + returned[n - 1].inputTokens
RECURSIVE SumOutputTokens(_)
SumOutputTokens(n) ==
    IF n = 0 THEN 0 ELSE SumOutputTokens(n - 1) + returned[n - 1].outputTokens

\* C1: in parallel mode a returned output has, at every index i, the formatted
\* content the adapter returned for image i and the page number
\* resolvePageNumber(i), whatever the order in which the calls completed.
C1_PagesInIndexOrder ==
    (~maintainFormat /\ Returned) =>
        \A i \in PageIndices :
            /\ i \in Indices
            /\ At(output.pages, i).content = Formatted(i)
            /\ At(output.pages, i).page = resolvePageNumber(pagesToConvertAsImages, i)

\* C1 witness: a parallel run returned although image 1 completed before
\* image 0 and the two contents differ
C1_Witness ==
    /\ ~maintainFormat /\ Returned
    /\ Len(settled) >= 2 /\ settled[1] = 1 /\ settled[2] = 0
    /\ Formatted(0) # Formatted(1)
    /\ At(output.pages, 0).content = Formatted(0)

\* C2: in parallel mode with concurrency >= 1, at most `concurrency`
\* getCompletion calls are started and not yet settled, in every state, also
\* after a call has failed.
C2_ConcurrencyCeiling ==
    (~maintainFormat /\ concurrency >= 1) => Cardinality(InFlight) <= concurrency

\* C2 witness: after a failure, a queued unit was started and the ceiling is
\* reached again
C2_Witness ==
    /\ ~maintainFormat /\ concurrency >= 2
    /\ FailedUnits # {}
    /\ Cardinality(InFlight) = concurrency
    /\ \E i \in InFlight : i >= concurrency

\* C3: in sequential mode the priorPage argument of the call for image i is the
\* formatted output of image i-1 (empty for image 0), and that call is started
\* only once the call for image i-1 has returned and its output is stored.
C3_SequentialThreading ==
    maintainFormat =>
        \A i \in DOMAIN callState :
            callState[i] # "idle" =>
                IF i = 0 THEN callPrior[i] = <<>>
                ELSE /\ callState[i - 1] = "returned"
                     /\ callPrior[i] = Formatted(i - 1)
                     /\ Len(aggregatedMarkdown) >= i
                     /\ At(aggregatedMarkdown, i - 1) = Formatted(i - 1)

\* C3 witness: the call for image 2 was started with the output of image 1,
\* which differs from the output of image 0
C3_Witness ==
    /\ maintainFormat
    /\ 2 \in DOMAIN callState /\ callState[2] # "idle"
    /\ callPrior[2] = Formatted(1)
    /\ Formatted(1) # Formatted(0)

\* C4: in sequential mode, once the call for image k has failed, no call was
\* or is started for an image after k, and the run has failed with exactly the
\* error that call raised, without an output.
C4_SequentialFailFast ==
    maintainFormat =>
        \A k \in FailedUnits :
            /\ \A j \in DOMAIN callState : j > k => callState[j] = "idle"
            /\ Failed
            /\ error = raised[k]
            /\ output = NoOutput

\* C4 witness: image 1 of 3 failed after image 0 had returned
C4_Witness ==
    /\ maintainFormat
    /\ Len(images) = 3
    /\ 1 \in FailedUnits /\ 0 \in ReturnedUnits
    /\ error = raised[1]

OneFailedOthersReturned ==
    /\ ~maintainFormat
    /\ Cardinality(FailedUnits) = 1
    /\ ReturnedUnits # {}
    /\ FailedUnits \cup ReturnedUnits = Indices

\* C5 as stated: in parallel mode, when one call failed and all the others
\* returned, the run is not Failed and what it returns holds the successful
\* contents in index order.
C5_PartialSuccess ==
    OneFailedOthersReturned =>
        /\ ~Failed
        /\ Returned => [j \in 1..Len(output.pages) |-> output.pages[j].content]
                          = filterResults(results, Len(images))

\* C6: a returned output carries the exact sums of the input and of the output
\* tokens the adapter reported for the images whose contents are its pages.
C6_TokenTotals ==
    Returned =>
        /\ \A i \in PageIndices : i \in ReturnedUnits
        /\ output.inputTokens = SumInputTokens(Len(output.pages))
        /\ output.outputTokens = SumOutputTokens(Len(output.pages))

\* C6 witness: a parallel run of three images returned, the calls completed out
\* of index order and reported different input token counts
C6_Witness ==
    /\ Returned /\ ~maintainFormat
    /\ Len(output.pages) = 3
    /\ settled[1] # 0
    /\ returned[0].inputTokens # returned[1].inputTokens
    /\ output.inputTokens = SumInputTokens(3)

\* C7 as stated: once the temporary directory was created, a run that has ended
\* (returned or failed) has removed it if and only if cleanup is true.
C7_CleanupIffFlag ==
    (tempDirectory # "none" /\ (Returned \/ Failed)) =>
        (tempDirectory = "removed" <=> cleanup)

\* C8: with an empty API key or an empty file path the run fails with the
\* validator's error and performs no I/O at all: no directory, no download or
\* conversion, no adapter call, no output file.
C8_ValidatorsFirst ==
    (openaiAPIKey = "" \/ filePath = "") =>
        /\ pc \in {"start", "failed"}
        /\ Failed => error = (IF llmParams = "invalid" THEN Err("Invalid LLM parameter")
                              ELSE IF openaiAPIKey = "" THEN Err("Missing OpenAI API key")
                              ELSE Err("Missing file path"))
        /\ ~ioStarted
        /\ tempDirectory = "none"
        /\ InFlight = {}
        /\ written = NoFile
        /\ output = NoOutput

\* C8 witness: a run with a key and no file path has failed
C8_Witness ==
    /\ llmParams = "valid" /\ openaiAPIKey # "" /\ filePath = ""
    /\ Failed /\ error = Err("Missing file path")

\* C9: in a returned output of n pages, page i is numbered i+1 when the
\* argument is -1, list[i] when it is an ascending list of n numbers, and p
\* when it is the single number p.
C9_PageNumbers ==
    Returned =>
        \A i \in PageIndices :
            LET page == At(output.pages, i).page IN
            /\ suppliedPages = PageNumber(-1) => page = i + 1
            /\ (/\ suppliedPages.isArray
                /\ IsAscending(suppliedPages.list)
                /\ Len(suppliedPages.list) = Len(output.pages))
                   => page = At(suppliedPages.list, i)
            /\ (~suppliedPages.isArray /\ suppliedPages.num # -1)
                   => page = suppliedPages.num

\* C9 witness: a run with the list [2, 5] returned two pages
C9_Witness ==
    /\ Returned
    /\ suppliedPages = PageList(<<2, 5>>)
    /\ Len(output.pages) = 2
    /\ At(output.pages, 1).page = 5

\* C10: the sequential executor runs if and only if maintainFormat is set, the
\* parallel one otherwise; with maintainFormat set at most one adapter call is
\* in flight and the limiter is not used, whatever the concurrency.
C10_ModeSelection ==
    /\ executor # "none" => (executor = "sequential" <=> maintainFormat)
    /\ pc = "getCompletion" => maintainFormat
    /\ pc = "Promise.all" => ~maintainFormat
    /\ maintainFormat => /\ Cardinality(InFlight) <= 1
                         /\ queue = <<>>
                         /\ activeCount = 0

\* C10 witness: with maintainFormat and concurrency 2, one call is in flight
\* and another image still waits
C10_Witness ==
    /\ maintainFormat /\ concurrency >= 2
    /\ executor = "sequential"
    /\ Cardinality(InFlight) = 1
    /\ \E i \in DOMAIN callState : callState[i] = "idle"

\* the value of priorPage after the first d settled calls: the formatted
\* output of the last of them that returned, empty if none returned
RECURSIVE PriorAfter(_)
PriorAfter(d) ==
    IF d = 0 THEN <<>>
    ELSE IF callState[settled[d]] = "returned" THEN Formatted(settled[d])
    ELSE PriorAfter(d - 1)

\* the failures among the first d settled calls
FailuresAmong(d) == {m \in 1..d : callState[settled[m]] = "failed"}

\* the image whose call failed first in time
FirstFailed ==
    settled[CHOOSE m \in FailuresAmong(Len(settled)) :
                \A o \in FailuresAmong(Len(settled)) : m <= o]

\* the element of the duplicate-free list l with exactly i smaller elements
IthSmallest(l, i) ==
    CHOOSE x \in RangeOf(l) : Cardinality({y \in RangeOf(l) : y < x}) = i

\* the contents of the first n returned pages, in page order, each two
\* separated by a blank line
RECURSIVE BlankLineSeparated(_)
BlankLineSeparated(n) ==
    IF n = 0 THEN <<>>
    ELSE IF n = 1 THEN output.pages[1].content
    ELSE BlankLineSeparated(n - 1) \o <<"\n\n">> \o output.pages[n].content

\* C11: a run that returns with outputDir set has written the file whose
\* content is the contents of the returned pages, in their order, joined by the
\* blank-line separator; without outputDir no file is ever written.
C11_OutputFile ==
    /\ outputDir = "" => written = NoFile
    /\ (Returned /\ outputDir # "") =>
          /\ written # NoFile
          /\ written = BlankLineSeparated(Len(output.pages))

\* C11 witness: a parallel run of two images that completed out of index order
\* returned and wrote both contents with the separator between them
C11_Witness ==
    /\ Returned /\ outputDir # "" /\ ~maintainFormat
    /\ Len(output.pages) = 2
    /\ settled = <<1, 0>>
    /\ Formatted(0) # Formatted(1)
    /\ written = Formatted(0) \o <<"\n\n">> \o Formatted(1)

\* C12 as stated: in parallel mode no call is started once a call has failed:
\* every call of the run was started when no settled call had failed.
C12_NoDispatchAfterFailure ==
    ~maintainFormat =>
        \A i \in DOMAIN dispatches :
            \A j \in 1..Len(dispatches[i]) : FailuresAmong(dispatches[i][j]) = {}

\* C13 as stated: with an explicit list whose length differs from the number
\* of page images the run does not return an output.
C13_MismatchFails ==
    (/\ pagesToConvertAsImages.isArray
     /\ executor # "none"
     /\ Len(pagesToConvertAsImages.list) # Len(images)) => ~Returned

\* C14: in parallel mode, once a call has failed the run never returns an
\* output; it is still awaiting, with no rejection under way, until the
\* rejection of the call that failed first in time has reached Promise.all;
\* from then on the rejection under way carries the error of that call, and
\* once it has reached documind the run has failed with that error: no later
\* failure or completion changes the error.
C14_FirstFailureSurfaces ==
    (~maintainFormat /\ FailedUnits # {}) =>
        /\ output = NoOutput
        /\ IF FirstFailed \in RangeOf(pendingNext) \cup RangeOf(pendingAll)
           THEN rejected = NoRejection /\ pc = "Promise.all" /\ error = NoError
           ELSE /\ rejected.error = raised[FirstFailed]
                /\ IF rejected.at = "documind"
                   THEN Failed /\ error = raised[FirstFailed]
                   ELSE pc = "Promise.all" /\ error = NoError

\* C14 witness: image 1 failed first, image 0 failed after it, both rejections
\* have reached Promise.all, documind has thrown and the run carries the error
\* of image 1
C14_Witness ==
    /\ ~maintainFormat
    /\ Len(settled) >= 2 /\ settled[1] = 1 /\ settled[2] = 0
    /\ FailedUnits = {0, 1}
    /\ pendingNext = <<>> /\ pendingAll = <<>>
    /\ rejected.at = "documind"
    /\ Failed
    /\ error = AdapterError(1)

\* C15: in parallel mode the priorPage argument of a call is the value of the
\* shared priorPage when the call is started: empty for the calls started at
\* once, else the formatted output of the call that returned last before.
C15_PriorPageAtDispatch ==
    (~maintainFormat /\ executor = "parallel") =>
        /\ priorPage = PriorAfter(Len(settled))
        /\ \A i \in DOMAIN dispatches :
              dispatches[i] # <<>> =>
                  /\ callPrior[i] = PriorAfter(dispatches[i][1])
                  /\ i < concurrency => callPrior[i] = <<>>

\* C15 witness: with concurrency 2, image 0 returned first and image 2 was
\* started with the output of image 0, which is not the output of image 1
C15_Witness ==
    /\ ~maintainFormat /\ concurrency = 2
    /\ Len(images) = 3
    /\ settled = <<0, 1>>
    /\ ReturnedUnits = {0, 1}
    /\ callPrior[2] = Formatted(0)
    /\ Formatted(0) # Formatted(1)

\* C17: in both modes getCompletion is called at most once for each image, and
\* exactly once for each image in a run that returns.
C17_OneCallPerUnit ==
    /\ \A i \in DOMAIN dispatches : Len(dispatches[i]) <= 1
    /\ Returned => \A i \in Indices : Len(dispatches[i]) = 1

\* C17 witness: a parallel run has failed on image 0, and the images behind it
\* in the queue have been started once each
C17_Witness ==
    /\ ~maintainFormat /\ concurrency = 1
    /\ Len(images) = 3
    /\ 0 \in FailedUnits
    /\ \A i \in Indices : Len(dispatches[i]) = 1

\* C18: an explicit list given in any order is sorted ascending before the
\* conversion and before the page numbers are resolved: page i of a returned
\* output is the i-th smallest element of the supplied list, and the page
\* numbers taken from the list do not decrease.
C18_SortedPageList ==
    suppliedPages.isArray =>
        /\ pc \in {"convertFileToPdf", "convertPdfToImages", "readdir"} =>
              /\ IsAscending(pagesToConvertAsImages.list)
              /\ RangeOf(pagesToConvertAsImages.list) = RangeOf(suppliedPages.list)
        /\ Returned =>
              \A i \in PageIndices :
                  i < Len(suppliedPages.list) =>
                      /\ At(output.pages, i).page = IthSmallest(suppliedPages.list, i)
                      /\ i >= 1 => At(output.pages, i - 1).page <= At(output.pages, i).page

\* C18 witness: a run with the list [5, 2] returned pages numbered 2 and 5
C18_Witness ==
    /\ Returned
    /\ suppliedPages = PageList(<<5, 2>>)
    /\ Len(output.pages) = 2
    /\ At(output.pages, 0).page = 2
    /\ At(output.pages, 1).page = 5

\* C19: a run that returns has exactly one page per image, in both modes; in
\* parallel mode every slot of results is filled, so the filter removes nothing.
C19_OnePagePerImage ==
    Returned =>
        /\ Len(output.pages) = Len(images)
        /\ executor = "parallel" =>
              /\ \A i \in Indices : results[i] # HOLE
              /\ aggregatedMarkdown = [j \in 1..Len(images) |-> results[j - 1]]

\* C19 witness: a parallel run of three images returned three pages although
\* the calls completed in the order 1, 2, 0
C19_Witness ==
    /\ Returned /\ executor = "parallel"
    /\ Len(images) = 3
    /\ settled = <<1, 2, 0>>
    /\ Len(output.pages) = 3

\* C20: the output file is written and the temporary directory removed only
\* when every image's call has returned; no call is in flight, queued or
\* started while or after that.
C20_RemovalAfterCalls ==
    (pc \in {"writeFile", "remove"} \/ written # NoFile \/ tempDirectory = "removed") =>
        /\ InFlight = {}
        /\ queue = <<>>
        /\ \A i \in Indices : callState[i] = "returned"

\* C20 witness: a parallel run with concurrency 1 has written its file
\* and removed the directory after its three calls
C20_Witness ==
    /\ ~maintainFormat /\ concurrency = 1
    /\ Len(images) = 3
    /\ written # NoFile
    /\ tempDirectory = "removed"
    /\ Len(settled) = 3

\* C16: if every awaited call eventually returns or throws, every run
\* eventually has returned or failed for good, and in parallel mode with
\* concurrency >= 1 every image's call has by then been started and has
\* settled: the limiter never leaves a queued image waiting forever.
C16_Termination ==
    <>[](/\ Returned \/ Failed
         /\ (executor = "parallel" /\ concurrency >= 1)
              => (/\ queue = <<>>
                  /\ \A i \in Indices : callState[i] \in {"returned", "failed"}))

\* C16 witness: with concurrency 1 every image waited in the queue in turn, all
\* calls returned and the run returned
C16_Witness ==
    /\ Returned /\ executor = "parallel"
    /\ concurrency = 1
    /\ Len(images) = MaxImages
    /\ ReturnedUnits = Indices
    /\ queue = <<>> /\ activeCount = 0
====
